---- MODULE Spec2Model ----
(***************************************************************************)
(* INFUGEN API Extractor (src/app.py): a Streamlit script that reads an    *)
(* uploaded CSV, coerces its numeric columns, derives an API token from    *)
(* every product name, keeps the human-use rows and reports the top APIs   *)
(* by quantity.                                                            *)
(*                                                                         *)
(* Text is modelled as TLA+ strings, read character by character with      *)
(* Len / SubSeq / \o.  Money is kept in thousandths of a USD so that the   *)
(* fallback rate 0.012 is the integer RateMilli.                           *)
(***************************************************************************)
EXTENDS Integers, Sequences, FiniteSets

VARIABLES
    name,           \* extractor harness: the product name handed to extract_api
    api,            \* extractor harness: extract_api(name)
    reapi,          \* extractor harness: extract_api(api)
    xpc,            \* extractor harness: "input" | "extracted" | "reextracted"
    uploaded_file,  \* the CSV held by the file_uploader widget, or NoFile
    api_filter,     \* value of the "Filter API" selectbox
    reselected,     \* history: the selectbox has been changed since the upload
    out             \* everything the last script run computed and displayed

xvars == <<name, api, reapi, xpc>>
pvars == <<uploaded_file, api_filter, reselected, out>>
vars == <<name, api, reapi, xpc, uploaded_file, api_filter, reselected, out>>

---------------------------------------------------------------------------
(* Characters and Python string primitives                                 *)

Ch(s, i) == SubSeq(s, i, i)

\* the set of the characters of s
CharsOf(s) == {Ch(s, i) : i \in 1..Len(s)}

LowerAlpha == "abcdefghijklmnopqrstuvwxyz"
UpperAlpha == "ABCDEFGHIJKLMNOPQRSTUVWXYZ"

LowerSet == CharsOf(LowerAlpha)
UpperSet == CharsOf(UpperAlpha)
DigitSet == CharsOf("0123456789")

\* the upper-case form of each lower-case letter
UpperOf == [c \in LowerSet |-> Ch(UpperAlpha, CHOOSE i \in 1..Len(LowerAlpha) : Ch(LowerAlpha, i) = c)]

UpperChar(c) == IF c \in LowerSet THEN UpperOf[c] ELSE c

\* str.upper()
RECURSIVE upper(_)
upper(s) == IF s = "" THEN "" ELSE UpperChar(Ch(s, 1)) \o upper(SubSeq(s, 2, Len(s)))

\* the whitespace characters: what str.strip() removes and what \s matches
IsSpace(c) == c \in {" ", "\t", "\n"}

IsDigit(c) == c \in DigitSet

\* \w of the re module: letters, digits and underscore
IsWordChar(c) == c \in LowerSet \/ c \in UpperSet \/ c \in DigitSet \/ c = "_"

RECURSIVE lstrip(_)
lstrip(s) == IF s # "" /\ IsSpace(Ch(s, 1)) THEN lstrip(SubSeq(s, 2, Len(s))) ELSE s

RECURSIVE rstrip(_)
rstrip(s) == IF s # "" /\ IsSpace(Ch(s, Len(s))) THEN rstrip(SubSeq(s, 1, Len(s) - 1)) ELSE s

\* str.strip()
strip(s) == rstrip(lstrip(s))

---------------------------------------------------------------------------
(* extract_api, src/app.py lines 25-44                                     *)

\* the character class of re.split(r"[-+/(),.% ]", name)
SplitChars == CharsOf("-+/(),.% ")

IsSplitChar(c) == c \in SplitChars

\* a faulty split, re.split with maxsplit=1: only the first separator splits
re_split_maxsplit1(s) ==
    IF \E i \in 1..Len(s) : IsSplitChar(Ch(s, i))
    THEN LET i == CHOOSE k \in 1..Len(s) :
                    IsSplitChar(Ch(s, k)) /\ \A j \in 1..(k - 1) : ~IsSplitChar(Ch(s, j))
         IN <<SubSeq(s, 1, i - 1), SubSeq(s, i + 1, Len(s))>>
    ELSE <<s>>

\* re.split on a one-character class: every separator ends a (possibly empty) token
RECURSIVE re_split(_)
re_split(s) ==
    IF \E i \in 1..Len(s) : IsSplitChar(Ch(s, i))
    THEN LET i == CHOOSE k \in 1..Len(s) :
                    IsSplitChar(Ch(s, k)) /\ \A j \in 1..(k - 1) : ~IsSplitChar(Ch(s, j))
         IN <<SubSeq(s, 1, i - 1)>> \o re_split(SubSeq(s, i + 1, Len(s)))
    ELSE <<s>>

DosageUnits == {"MG", "ML", "GM", "G", "KG"}

\* re.compile(r"^\d+\s?(MG|ML|GM|G|KG)$", re.IGNORECASE).match(token):
\* one or more digits, at most one whitespace character, a unit, then the
\* end of the string ($ also matches just before a final newline)
dosage_pattern_match(token) ==
    LET ends == IF token # "" /\ Ch(token, Len(token)) = "\n"
                THEN {Len(token), Len(token) - 1} ELSE {Len(token)}
    IN \E k \in 1..Len(token), e \in ends :
          /\ k <= e
          /\ \A j \in 1..k : IsDigit(Ch(token, j))
          /\ LET rest == SubSeq(token, k + 1, e)
             IN \/ upper(rest) \in DosageUnits
                \/ /\ rest # ""
                   /\ IsSpace(Ch(rest, 1))
                   /\ upper(SubSeq(rest, 2, Len(rest))) \in DosageUnits

\* the length below which is_invalid rejects a token
MinTokenLen == 4

\* a faulty length test: a token of exactly MinTokenLen characters is rejected
is_invalid_off_by_one(token) == dosage_pattern_match(token) \/ Len(token) <= MinTokenLen

is_invalid(token) == dosage_pattern_match(token) \/ Len(token) < MinTokenLen

exclude_terms ==
    {"PHARMACEUTICAL", "LIMITED", "PRIVATE", "HARMLESS", "EXPORT",
     "LAB", "LABS", "INDIA", "TABLET", "CAPSULE", "INJECTION",
     "SYRUP", "CREAM", "OINTMENT", "DROPS", "NOS", "KGS", "KG"}

\* the filter of the list comprehension, lines 38-42
KeepToken(t) == strip(t) # "" /\ strip(t) \notin exclude_terms /\ ~is_invalid(strip(t))

extract_api(nm) ==
    LET tokens == re_split(upper(nm))
        kept == SelectSeq(tokens, KeepToken)
        valid_tokens == [i \in 1..Len(kept) |-> strip(kept[i])]
    IN IF valid_tokens # <<>> THEN valid_tokens[1] ELSE "INVALID"

---------------------------------------------------------------------------
(* Numbers, ordering and small sequence helpers                            *)

Max(a, b) == IF a >= b THEN a ELSE b

RECURSIVE SumOver(_, _)
\* sum of f[i] over the indices of the sequence idx
SumOver(idx, f) == IF idx = <<>> THEN 0 ELSE f[Head(idx)] + SumOver(Tail(idx), f)

\* the indices 1..n that satisfy keep, in increasing order (boolean indexing)
RECURSIVE IndicesWhere(_, _)
IndicesWhere(n, keep) ==
    IF n = 0 THEN <<>>
    ELSE IF keep[n] THEN Append(IndicesWhere(n - 1, keep), n) ELSE IndicesWhere(n - 1, keep)

\* the characters of the model in code-point order
CharOrder == "\t\n %()+,-./0123456789ABCDEFGHIJKLMNOPQRSTUVWXYZ_abcdefghijklmnopqrstuvwxyz"

CodeOf == [c \in CharsOf(CharOrder) |-> CHOOSE i \in 1..Len(CharOrder) : Ch(CharOrder, i) = c]

\* Python's str < str: code-point lexicographic order
RECURSIVE StrLess(_, _)
StrLess(a, b) ==
    IF b = "" THEN FALSE
    ELSE IF a = "" THEN TRUE
    ELSE IF Ch(a, 1) = Ch(b, 1) THEN StrLess(SubSeq(a, 2, Len(a)), SubSeq(b, 2, Len(b)))
    ELSE CodeOf[Ch(a, 1)] < CodeOf[Ch(b, 1)]

\* sorted(S) for a set of strings
RECURSIVE SortedStrings(_)
SortedStrings(S) ==
    IF S = {} THEN <<>>
    ELSE LET m == CHOOSE x \in S : \A y \in S : y = x \/ StrLess(x, y)
         IN <<m>> \o SortedStrings(S \ {m})

\* round(n / d) to the nearest integer, halves to even (numpy's rint), d > 0
RoundHalfEven(n, d) ==
    LET q == n \div d
        r == n % d
    IN IF 2 * r < d THEN q
       ELSE IF 2 * r > d THEN q + 1
       ELSE IF q % 2 = 0 THEN q ELSE q + 1

---------------------------------------------------------------------------
(* The uploaded table and the Normalizer, src/app.py lines 9-22            *)

ExpectedCols == {"Product Name", "Unit", "Quantity", "FOB (INR)", "Item Rate(INR)", "FOB (USD)"}

\* line 15
numeric_cols == {"Quantity", "FOB (INR)", "Item Rate(INR)", "FOB (USD)"}

\* no file in the uploader: st.file_uploader returns None
NoFile == [uploaded |-> FALSE, columns |-> {}, rows |-> <<>>]

\* the cell texts pd.read_csv reads as NaN by default
NAValues ==
    {"", "#N/A", "#N/A N/A", "#NA", "-1.#IND", "-1.#QNAN", "-NaN", "-nan", "1.#IND",
     "1.#QNAN", "<NA>", "N/A", "NA", "NULL", "NaN", "None", "n/a", "nan", "null"}

\* pd.read_csv, line 12: a missing cell (NaN) is carried as the empty string,
\* which no cell that holds text can be
read_csv(file) ==
    [i \in 1..Len(file.rows) |->
        [c \in file.columns |-> IF file.rows[i][c] \in NAValues THEN "" ELSE file.rows[i][c]]]

DigitValue == [c \in DigitSet |-> CHOOSE v \in 0..9 : Ch("0123456789", v + 1) = c]

RECURSIVE DigitsToInt(_)
DigitsToInt(s) ==
    IF s = "" THEN 0 ELSE 10 * DigitsToInt(SubSeq(s, 1, Len(s) - 1)) + DigitValue[Ch(s, Len(s))]

AllDigits(s) == s # "" /\ \A i \in 1..Len(s) : IsDigit(Ch(s, i))

\* the cell is the text of an integer: an optional sign and digits
IsIntText(s) ==
    \/ AllDigits(s)
    \/ s # "" /\ Ch(s, 1) \in {"-", "+"} /\ AllDigits(SubSeq(s, 2, Len(s)))

\* pd.to_numeric(errors="coerce") on one cell: the number, or NaN
to_numeric(cell) ==
    IF IsIntText(cell)
    THEN [nan |-> FALSE,
          v |-> IF Ch(cell, 1) = "-" THEN 0 - DigitsToInt(SubSeq(cell, 2, Len(cell)))
                ELSE IF Ch(cell, 1) = "+" THEN DigitsToInt(SubSeq(cell, 2, Len(cell)))
                ELSE DigitsToInt(cell)]
    ELSE [nan |-> TRUE, v |-> 0]

\* .fillna(0)
fillna0(x) == IF x.nan THEN 0 ELSE x.v

\* line 18 on one cell
Coerce(cell) == fillna0(to_numeric(cell))

\* thousandths of a USD in one USD: FOB (USD) is carried in thousandths
MilliPerUnit == 1000

\* line 22: the fixed INR-USD rate 0.012, in thousandths
RateMilli == 12

\* lines 16-18: every numeric column that is present, coerced
CleanNumeric(raw, columns) ==
    [i \in 1..Len(raw) |->
        [c \in columns |-> IF c \in numeric_cols THEN Coerce(raw[i][c]) ELSE raw[i][c]]]

\* line 21: the condition of the FOB (USD) fallback
NeedsFallback(clean, columns) ==
    \/ "FOB (USD)" \notin columns
    \/ SumOver([i \in 1..Len(clean) |-> i], [i \in 1..Len(clean) |-> clean[i]["FOB (USD)"]]) = 0

\* lines 21-22: the table after the Normalizer; FOB (USD) in thousandths.
\* Defined when the fallback is not needed or FOB (INR) is present.
Normalized(clean, columns) ==
    [i \in 1..Len(clean) |->
        [c \in columns \cup {"FOB (USD)"} |->
            IF c = "FOB (USD)"
            THEN IF NeedsFallback(clean, columns)
                 THEN clean[i]["FOB (INR)"] * RateMilli
                 ELSE clean[i]["FOB (USD)"] * MilliPerUnit
            ELSE clean[i][c]]]

---------------------------------------------------------------------------
(* The uploaded tables the pipeline is run on                              *)

Row(nm, unit, qty, inr, rate, usd) ==
    [c \in ExpectedCols |->
        CASE c = "Product Name" -> nm
          [] c = "Unit" -> unit
          [] c = "Quantity" -> qty
          [] c = "FOB (INR)" -> inr
          [] c = "Item Rate(INR)" -> rate
          [] c = "FOB (USD)" -> usd]

\* a CSV with the given columns: the rows cut down to them
File(columns, rows) ==
    [uploaded |-> TRUE, columns |-> columns,
     rows |-> [i \in 1..Len(rows) |-> [c \in columns |-> rows[i][c]]]]

RECURSIVE SeqsUpTo(_, _)
\* the sequences of at most n elements of S
SeqsUpTo(S, n) ==
    IF n = 0 THEN {<<>>}
    ELSE LET shorter == SeqsUpTo(S, n - 1)
         IN shorter \cup {Append(q, x) : q \in shorter, x \in S}

\* 1. any non-empty subset of the expected columns, few rows, cells of every kind:
\*    negative, unparseable, zero and missing
MaxRows == 2

SmallRows ==
    {Row("PARA 5MG TABLET", "NOS", "2", "100", "7", "5"),
     Row("para tablet", "", "-3", "-100", "x", "0"),
     Row("TABLET 5MG", "kgs", "x", "NA", "1", "-5"),
     Row("", "", "", "", "", "")}

SmallFiles ==
    {File(cols, rows) : cols \in (SUBSET ExpectedCols) \ {{}}, rows \in SeqsUpTo(SmallRows, MaxRows)}

\* 2. all columns, product names of every kind (upper and lower case, no
\*    keyword, a keyword inside a longer word, missing); FOB (USD) is all zero,
\*    so the fallback of line 22 applies
MaxReportRows == 3

ReportRows ==
    {Row("PARA 5MG TABLET", "NOS", "2", "100", "1", "0"),
     Row("PARA 5MG TABLET", "NOS", "0", "100", "1", "0"),
     Row("para tablet", "Kg", "2", "100", "1", "0"),
     Row("XYZ POWDER", "Kg", "2", "100", "1", "0"),
     Row("AMOX TABLETS", "NOS", "2", "100", "1", "0"),
     Row("IBUP Syrup", "NOS", "2", "100", "1", "0"),
     Row("", "NOS", "2", "100", "1", "0")}

ReportFiles == {File(ExpectedCols, rows) : rows \in SeqsUpTo(ReportRows, MaxReportRows)}

\* 3. more APIs than the report keeps: any rows of a catalogue of
\*    CatalogueLen rows, in catalogue order
CatalogueLen == 6

CatalogueNames ==
    <<"ZINC DROPS", "AMOX CAPSULE", "IBUP SYRUP", "CIPRO CREAM", "DOXY INJECTION",
      "PARA TABLET", "KETO OINTMENT">>

CatalogueQuantities == <<"2", "1", "3", "1", "2", "1", "3">>

Catalogue(i) ==
    LET k == ((i - 1) % Len(CatalogueNames)) + 1
    IN Row(CatalogueNames[k], "NOS", CatalogueQuantities[k], "100", "1", "0")

RECURSIVE CatalogueTables(_)
\* the tables made of rows among the first n of the catalogue
CatalogueTables(n) ==
    IF n = 0 THEN {<<>>}
    ELSE LET shorter == CatalogueTables(n - 1)
         IN shorter \cup {Append(q, Catalogue(n)) : q \in shorter}

RankFiles == {File(ExpectedCols, rows) : rows \in CatalogueTables(CatalogueLen)}

Files == SmallFiles \cup ReportFiles \cup RankFiles

\* every Product Name cell of these files, as pd.read_csv hands it on
NameCells ==
    {IF r["Product Name"] \in NAValues THEN "" ELSE r["Product Name"] : r \in SmallRows \cup ReportRows}
        \cup {CatalogueNames[i] : i \in 1..Len(CatalogueNames)}

---------------------------------------------------------------------------
(* Extraction and the human-use filter, lines 46-57                        *)

\* str(name) of a cell of the Product Name column: NaN prints as "nan"
PyStr(cell) == IF cell = "" THEN "nan" ELSE cell

\* the column has dtype object (so .str works): it is empty, or holds a cell
\* that is neither missing nor a number
IsObjectColumn(cells) ==
    Len(cells) = 0 \/ \E i \in 1..Len(cells) : cells[i] # "" /\ ~IsIntText(cells[i])

\* s[p] is a word character (p outside s is not)
IsWordAt(s, p) == p >= 1 /\ p <= Len(s) /\ IsWordChar(Ch(s, p))

\* \b between s[p] and s[p+1]
WordBoundary(s, p) == IsWordAt(s, p) # IsWordAt(s, p + 1)

human_keywords == {"TABLET", "CAPSULE", "INJECTION", "SYRUP", "CREAM", "OINTMENT", "DROPS"}

\* a faulty search: the keyword may be part of a longer word
contains_human_substring(cell) ==
    /\ cell # ""
    /\ \E i \in 1..Len(cell), k \in human_keywords :
          i + Len(k) - 1 <= Len(cell) /\ upper(SubSeq(cell, i, i + Len(k) - 1)) = k

\* .str.contains(human_indicators, case=False, na=False) on one cell, lines 50-51
contains_human(cell) ==
    /\ cell # ""
    /\ \E i \in 1..Len(cell), k \in human_keywords :
          /\ WordBoundary(cell, i - 1)
          /\ i + Len(k) - 1 <= Len(cell)
          /\ upper(SubSeq(cell, i, i + Len(k) - 1)) = k
          /\ WordBoundary(cell, i + Len(k) - 1)

\* every Unit cell of these files, as pd.read_csv hands it on
UnitCells == {IF r["Unit"] \in NAValues THEN "" ELSE r["Unit"] : r \in SmallRows \cup ReportRows} 

\* df["Product Name"].apply(extract_api), line 46, worked out once per cell
ApiOfCell == [cell \in NameCells |-> extract_api(PyStr(cell))]

\* the mask of line 51, worked out once per cell
IsHumanCell == [cell \in NameCells |-> contains_human(cell)]

---------------------------------------------------------------------------
(* Aggregation and the report, lines 59-106                                *)

\* the elements of a sequence, as a set
Range(q) == {q[i] : i \in 1..Len(q)}

\* the number of groups the report keeps: nlargest(5, ...), line 64
TopN == 5

RemoveAt(q, i) == SubSeq(q, 1, i - 1) \o SubSeq(q, i + 1, Len(q))

\* a faulty ranking: the first n groups in group order (.head(n))
head_n(n, groups) == SubSeq(groups, 1, IF n <= Len(groups) THEN n ELSE Len(groups))

\* DataFrame.nlargest(n, "Total_Quantity"), keep="first": the n rows of greatest
\* Total_Quantity in descending order, equal values in their order in the frame
RECURSIVE nlargest(_, _)
nlargest(n, groups) ==
    IF n = 0 \/ groups = <<>> THEN <<>>
    ELSE LET i == CHOOSE k \in 1..Len(groups) :
                    /\ \A j \in 1..Len(groups) : groups[j].Total_Quantity <= groups[k].Total_Quantity
                    /\ \A j \in 1..(k - 1) : groups[j].Total_Quantity < groups[k].Total_Quantity
         IN <<groups[i]>> \o nlargest(n - 1, RemoveAt(groups, i))

\* the rows of idx whose API is a (boolean indexing, line 70 and line 57)
RowsOfApi(idx, API, a) == SelectSeq(idx, LAMBDA i : API[i] = a)

\* lines 61-64: groupby("API") orders the groups by key; sums; nlargest; index
top_apis(df, API, filtered_df) ==
    LET keys == SortedStrings({API[i] : i \in Range(filtered_df)})
        groups == [j \in 1..Len(keys) |->
                     [API |-> keys[j],
                      Total_Quantity |-> SumOver(RowsOfApi(filtered_df, API, keys[j]),
                                                 [i \in 1..Len(df) |-> df[i]["Quantity"]]),
                      Total_FOB |-> SumOver(RowsOfApi(filtered_df, API, keys[j]),
                                            [i \in 1..Len(df) |-> df[i]["FOB (USD)"]])]]
        top == nlargest(TopN, groups)
    IN [j \in 1..Len(top) |-> top[j].API]

\* the text up to the first whitespace character
RECURSIVE UntilSpace(_)
UntilSpace(s) ==
    IF s = "" \/ IsSpace(Ch(s, 1)) THEN "" ELSE Ch(s, 1) \o UntilSpace(SubSeq(s, 2, Len(s)))

\* .str.split().str[0]: the first whitespace-delimited word
first_word(cell) == UntilSpace(lstrip(cell))

\* .str.upper() of lines 87-88, worked out once per cell
UpperOfUnit == [cell \in UnitCells |-> upper(cell)]

\* the Category candidates of line 81, worked out once per cell
FirstWordOfCell == [cell \in NameCells |-> first_word(cell)]

\* a faulty mode: of the most frequent values, the one met first
mode0_first_seen(values) ==
    LET count(v) == Cardinality({i \in 1..Len(values) : values[i] = v})
        i0 == CHOOSE i \in 1..Len(values) :
                 /\ \A j \in 1..Len(values) : count(values[j]) <= count(values[i])
                 /\ \A j \in 1..(i - 1) : count(values[j]) < count(values[i])
    IN values[i0]

\* Series.mode()[0]: mode() returns the most frequent values sorted, so [0] is
\* the smallest of them
mode0(values) ==
    LET count(v) == Cardinality({i \in 1..Len(values) : values[i] = v})
        modes == {v \in Range(values) : \A w \in Range(values) : count(w) <= count(v)}
    IN SortedStrings(modes)[1]

\* a faulty guard: the denominator as it is
Denominator_unguarded(total) == total

\* max(total, 1), lines 85, 89 and 90
Denominator(total) == Max(total, 1)

\* lines 79-91 for one API: the record appended to analysis_data.  A quotient
\* is kept exact, as numerator and denominator; money is in thousandths.  The
\* texts "Common Strengths" and "Packaging Types" are not carried.
AnalysisRecord(df, filtered_df, API, a) ==
    LET api_df == RowsOfApi(filtered_df, API, a)
        qty == [i \in 1..Len(df) |-> df[i]["Quantity"]]
        usd == [i \in 1..Len(df) |-> df[i]["FOB (USD)"]]
        unit == [i \in 1..Len(df) |-> UpperOfUnit[df[i]["Unit"]]]
    IN [API |-> a,
        Category |-> mode0([j \in 1..Len(api_df) |-> FirstWordOfCell[df[api_df[j]]["Product Name"]]]),
        Export_Count |-> Len(api_df),
        Total_Shipments |-> SumOver(api_df, qty),
        Avg_Qty_Export |-> [num |-> SumOver(api_df, qty), den |-> Denominator(Len(api_df))],
        Total_Nos |-> SumOver(SelectSeq(api_df, LAMBDA i : unit[i] = "NOS"), qty),
        Total_Kg |-> SumOver(SelectSeq(api_df, LAMBDA i : unit[i] \in {"KG", "KGS"}), qty),
        Avg_FOB_Pack |-> [num |-> SumOver(api_df, usd), den |-> Denominator(SumOver(api_df, qty))],
        Avg_Price_Unit |-> [num |-> SumOver(api_df, usd), den |-> Denominator(SumOver(api_df, qty))]]

\* .round(2) keeps hundredths
CentsPerUnit == 100

\* .round(2) of the float n / d in units of 1 / perUnit, in hundredths of the
\* unit; a float division by zero gives inf or nan, which round leaves alone
Round2(n, d, perUnit) ==
    IF d = 0 THEN "inf"
    ELSE IF d < 0 THEN RoundHalfEven(0 - CentsPerUnit * n, 0 - perUnit * d)
    ELSE RoundHalfEven(CentsPerUnit * n, perUnit * d)

\* line 93, .round(2): the float columns in hundredths (the other columns are
\* whole numbers or text, which round(2) leaves as they are)
Rounded(rec) ==
    [rec EXCEPT
        !.Avg_Qty_Export = Round2(rec.Avg_Qty_Export.num, rec.Avg_Qty_Export.den, 1),
        !.Avg_FOB_Pack = Round2(rec.Avg_FOB_Pack.num, rec.Avg_FOB_Pack.den, MilliPerUnit),
        !.Avg_Price_Unit = Round2(rec.Avg_Price_Unit.num, rec.Avg_Price_Unit.den, MilliPerUnit)]

---------------------------------------------------------------------------
(* One run of the script, lines 9-109                                      *)

\* what a run leaves on the page: the else branch of line 108 leaves this
Blank ==
    [status |-> "info", error |-> "", df |-> <<>>, API |-> <<>>, human_df |-> <<>>,
     options |-> <<>>, filtered_df |-> <<>>, analysis_data |-> <<>>, analysis_df |-> <<>>]

\* an uncaught exception ends the run; what was computed before it stays
Raise(o, err) == [o EXCEPT !.status = "exception", !.error = err]

\* lines 60-106, given the table with its API column and the filtered rows
Report(o, columns) ==
    IF o.filtered_df = <<>> THEN [o EXCEPT !.status = "warning"]
    ELSE IF "Quantity" \notin columns THEN Raise(o, "KeyError: Quantity (line 61)")
    ELSE IF "Unit" \notin columns THEN Raise(o, "KeyError: Unit (line 76)")
    ELSE IF ~IsObjectColumn([i \in 1..Len(o.df) |-> o.df[i]["Unit"]])
         THEN Raise(o, "AttributeError: .str on Unit (line 87)")
    ELSE LET top == top_apis(o.df, o.API, o.filtered_df)
             data == [j \in 1..Len(top) |-> AnalysisRecord(o.df, o.filtered_df, o.API, top[j])]
         IN [o EXCEPT !.status = "report",
                      !.analysis_data = data,
                      !.analysis_df = [j \in 1..Len(data) |-> Rounded(data[j])]]

\* lines 46-57, given the normalized table
ExtractAndFilter(o, columns, sel) ==
    IF "Product Name" \notin columns THEN Raise(o, "KeyError: Product Name (line 46)")
    ELSE LET names == [i \in 1..Len(o.df) |-> o.df[i]["Product Name"]]
             API == [i \in 1..Len(o.df) |-> ApiOfCell[names[i]]]
             valid_df == IndicesWhere(Len(o.df), [i \in 1..Len(o.df) |-> API[i] # "INVALID"])
         IN IF ~IsObjectColumn(names)
            THEN Raise([o EXCEPT !.API = API], "AttributeError: .str on Product Name (line 51)")
            ELSE LET human_df == SelectSeq(valid_df, LAMBDA i : IsHumanCell[names[i]])
                     options == <<"All">> \o SortedStrings({API[i] : i \in Range(human_df)})
                     filtered_df == IF sel = "All" THEN human_df
                                    ELSE RowsOfApi(human_df, API, sel)
                 IN Report([o EXCEPT !.API = API, !.human_df = human_df,
                                     !.options = options, !.filtered_df = filtered_df],
                           columns)

\* the whole script for the file in the uploader and the selectbox value sel
Script(file, sel) ==
    IF ~file.uploaded THEN Blank
    ELSE LET clean == CleanNumeric(read_csv(file), file.columns)
         IN IF NeedsFallback(clean, file.columns) /\ "FOB (INR)" \notin file.columns
            THEN Raise(Blank, "KeyError: FOB (INR) (line 22)")
            ELSE ExtractAndFilter([Blank EXCEPT !.status = "running",
                                                !.df = Normalized(clean, file.columns)],
                                  file.columns, sel)

\* a faulty run: analysis_data survives from the previous run and grows
RerunKeepingRecords(file, sel) ==
    out' = [Script(file, sel) EXCEPT !.analysis_data = out.analysis_data \o @]

\* Streamlit runs the script from the top on every event
Rerun(file, sel) ==
    out' = Script(file, sel)

---------------------------------------------------------------------------
(* Extractor harness: product names built from at most MaxPieces pieces    *)

MaxPieces == 3

NamePieces ==
    {"PARA", "Labs", "TABLET", "INVALID", "AB", "500", "MG", "g", " ", "\t", "-", "."}

RECURSIVE NamesUpTo(_)
NamesUpTo(n) ==
    IF n = 0 THEN {""}
    ELSE LET shorter == NamesUpTo(n - 1)
         IN shorter \cup {s \o p : s \in shorter, p \in NamePieces}

ProductNames == NamesUpTo(MaxPieces)

\* the page before any upload: the script has run once with no file
InitP == uploaded_file = NoFile /\ api_filter = "All" /\ reselected = FALSE /\ out = Script(NoFile, "All")

\* a product name is handed to extract_api; no file is uploaded
InitX == InitP /\ name \in ProductNames /\ api = "" /\ reapi = "" /\ xpc = "input"

Extract ==
    /\ xpc = "input"
    /\ api' = extract_api(name)
    /\ xpc' = "extracted"
    /\ UNCHANGED <<name, reapi, pvars>>

ReExtract ==
    /\ xpc = "extracted"
    /\ reapi' = extract_api(api)
    /\ xpc' = "reextracted"
    /\ UNCHANGED <<name, api, pvars>>

NextX == Extract \/ ReExtract

SpecExtract == InitX /\ [][NextX]_vars

---------------------------------------------------------------------------
(* The events of a session                                                 *)

\* a file is put into the empty uploader; the selectbox appears with "All"
Upload(file) ==
    /\ ~uploaded_file.uploaded
    /\ uploaded_file' = file
    /\ api_filter' = "All"
    /\ reselected' = FALSE
    /\ Rerun(file, "All")
    /\ UNCHANGED xvars

\* another option of the selectbox is chosen; it is there once line 55 has run
SelectFilter(a) ==
    /\ uploaded_file.uploaded
    /\ a \in Range(out.options)
    /\ a # api_filter
    /\ api_filter' = a
    /\ reselected' = TRUE
    /\ Rerun(uploaded_file, a)
    /\ UNCHANGED <<uploaded_file, xvars>>

\* the file is taken out of the uploader: the widgets below it go away
RemoveFile ==
    /\ uploaded_file.uploaded
    /\ uploaded_file' = NoFile
    /\ api_filter' = "All"
    /\ reselected' = FALSE
    /\ Rerun(NoFile, "All")
    /\ UNCHANGED xvars

Init == InitP /\ name = "" /\ api = "" /\ reapi = "" /\ xpc = "idle"

Next ==
    \/ \E file \in Files : Upload(file)
    \/ \E a \in Range(out.options) : SelectFilter(a)
    \/ RemoveFile

Spec == Init /\ [][Next]_vars

---------------------------------------------------------------------------
(* Claims about extract_api                                                *)

\* the characters the claim names as separators
ClaimSeparators == {"-", "+", "/", "(", ")", ",", ".", "%", " "}

\* a token of U starts at i: i is no separator and follows one (or starts U)
TokenStartsAt(U, i) ==
    Ch(U, i) \notin ClaimSeparators /\ (i = 1 \/ Ch(U, i - 1) \in ClaimSeparators)

\* the token of U that starts at i: up to the next separator or the end of U
TokenFrom(U, i) ==
    LET j == CHOOSE e \in i..Len(U) :
                 /\ \A k \in i..e : Ch(U, k) \notin ClaimSeparators
                 /\ (e = Len(U) \/ Ch(U, e + 1) \in ClaimSeparators)
    IN SubSeq(U, i, j)

\* digits, then at most one character of the set gap, then MG|ML|GM|G|KG
DosageWithGap(t, gap) ==
    \E k \in 1..Len(t) :
        /\ \A j \in 1..k : Ch(t, j) \in {"0", "1", "2", "3", "4", "5", "6", "7", "8", "9"}
        /\ \/ SubSeq(t, k + 1, Len(t)) \in {"MG", "ML", "GM", "G", "KG"}
           \/ /\ k + 1 <= Len(t)
              /\ Ch(t, k + 1) \in gap
              /\ SubSeq(t, k + 2, Len(t)) \in {"MG", "ML", "GM", "G", "KG"}

Survives(t, gap) ==
    /\ t # ""
    /\ t \notin exclude_terms
    /\ ~DosageWithGap(t, gap)
    /\ Len(t) >= 4

\* the first token of upper(nm), left to right, whose trimmed form survives
FirstSurvivor(nm, gap) ==
    LET U == upper(nm)
        S == {i \in 1..Len(U) : TokenStartsAt(U, i) /\ Survives(strip(TokenFrom(U, i)), gap)}
    IN IF S = {} THEN "INVALID"
       ELSE strip(TokenFrom(U, CHOOSE i \in S : \A r \in S : i <= r))

\* C1 as stated: extract_api returns the first trimmed token that is non-empty,
\* not excluded, at least 4 long and not a dosage (digits, optional single
\* space, unit), else "INVALID"; the result is never empty.
C1_AsStated ==
    xpc # "input" => api = FirstSurvivor(name, {" "}) /\ api # ""

\* C1 amended: the same with the dosage pattern's optional character being any
\* single whitespace character (a tab inside a token counts).
C1_FirstSurvivingToken ==
    xpc # "input" => api = FirstSurvivor(name, {" ", "\t", "\n"}) /\ api # ""

\* a token was discarded before the one returned
C1_Witness ==
    /\ xpc = "extracted"
    /\ api # "INVALID"
    /\ LET tokens == re_split(upper(name))
       IN Len(tokens) >= 2 /\ strip(tokens[1]) # "" /\ strip(tokens[1]) # api

\* C2: extract_api applied to its own result gives that result or "INVALID",
\* and "INVALID" maps to "INVALID".
C2_Idempotent ==
    xpc = "reextracted" =>
        /\ reapi \in {api, "INVALID"}
        /\ (api = "INVALID" => reapi = "INVALID")

\* a real token, cut out of a longer name, is fed back and returned unchanged
C2_Witness ==
    xpc = "reextracted" /\ api # "INVALID" /\ reapi = api /\ upper(name) # api

---------------------------------------------------------------------------
(* Claims about the pipeline                                               *)

\* the Normalizer of the last run ran to its end
NormalizerDone ==
    uploaded_file.uploaded /\ out.error # "KeyError: FOB (INR) (line 22)"

\* C3 as stated: after the Normalizer every value of Quantity, FOB (INR),
\* Item Rate(INR) and FOB (USD) is a number and is not negative.
C3_AsStated ==
    NormalizerDone =>
        \A i \in 1..Len(out.df) : \A c \in numeric_cols \cap DOMAIN out.df[i] :
            out.df[i][c] \in Int /\ out.df[i][c] >= 0

\* C4 as stated: whatever subset of the expected columns the table has, the run
\* does not end in an uncaught exception.
C4_AsStated == out.status # "exception"

\* the rows of the uploaded table, by position
RowIds == 1..Len(uploaded_file.rows)

\* the Product Name text of row i ("" when the cell or the column is missing)
NameText(i) ==
    IF "Product Name" \in uploaded_file.columns /\ uploaded_file.rows[i]["Product Name"] \notin NAValues
    THEN uploaded_file.rows[i]["Product Name"]
    ELSE ""

\* the token of a product name, as C1 (amended) describes it
TokenOfName == [cell \in NameCells |-> FirstSurvivor(cell, {" ", "\t", "\n"})]

\* the name contains one of the seven keywords as a whole word, in any case
HasKeywordWord(cell) ==
    \E i \in 1..Len(cell) :
        \E k \in {"TABLET", "CAPSULE", "INJECTION", "SYRUP", "CREAM", "OINTMENT", "DROPS"} :
            /\ i + Len(k) - 1 <= Len(cell)
            /\ upper(SubSeq(cell, i, i + Len(k) - 1)) = k
            /\ (i = 1 \/ ~IsWordChar(Ch(cell, i - 1)))
            /\ (i + Len(k) - 1 = Len(cell) \/ ~IsWordChar(Ch(cell, i + Len(k))))

KeywordInName == [cell \in NameCells |-> HasKeywordWord(cell)]

\* a human-use row with a real token
Eligible(i) ==
    NameText(i) # "" /\ TokenOfName[NameText(i)] # "INVALID" /\ KeywordInName[NameText(i)]

\* the filtered human-use set of the uploaded table under the selected filter
FilteredSet ==
    {i \in RowIds : Eligible(i) /\ (api_filter = "All" \/ TokenOfName[NameText(i)] = api_filter)}

RECURSIVE SumSet(_, _)
\* the sum of f[i] over the set S
SumSet(S, f) ==
    IF S = {} THEN 0 ELSE LET x == CHOOSE y \in S : TRUE IN f[x] + SumSet(S \ {x}, f)

Min(a, b) == IF a <= b THEN a ELSE b

ReportApis == {out.analysis_data[j].API : j \in 1..Len(out.analysis_data)}

\* C5 as stated: a non-empty filtered set gives exactly min(5, d) records, d the
\* number of its distinct tokens, no API twice; an empty one gives no record and
\* the "no data" message.
C5_AsStated ==
    uploaded_file.uploaded =>
        IF FilteredSet # {}
        THEN /\ Len(out.analysis_data) = Min(5, Cardinality({TokenOfName[NameText(i)] : i \in FilteredSet}))
             /\ Cardinality(ReportApis) = Len(out.analysis_data)
        ELSE out.analysis_data = <<>> /\ out.status = "warning"

\* the summed Quantity of the filtered rows of one API
GroupQuantity(a) ==
    SumSet({i \in Range(out.filtered_df) : out.API[i] = a},
           [i \in 1..Len(out.df) |-> out.df[i]["Quantity"]])

\* the summed FOB (USD), in thousandths, of the filtered rows of one API
GroupFob(a) ==
    SumSet({i \in Range(out.filtered_df) : out.API[i] = a},
           [i \in 1..Len(out.df) |-> out.df[i]["FOB (USD)"]])

\* C6: every API of the report has a summed Quantity at least that of every API
\* of the filtered set left out of it, and the records are listed by
\* non-increasing summed Quantity.
C6_TopByQuantity ==
    out.status = "report" =>
        /\ \A a \in ReportApis : \A i \in Range(out.filtered_df) :
              out.API[i] \notin ReportApis => GroupQuantity(a) >= GroupQuantity(out.API[i])
        /\ \A j \in 1..(Len(out.analysis_data) - 1) :
              GroupQuantity(out.analysis_data[j].API) >= GroupQuantity(out.analysis_data[j + 1].API)

\* a full report that leaves an API of the filtered set out
C6_Witness ==
    /\ out.status = "report"
    /\ Len(out.analysis_data) = 5
    /\ \E i \in Range(out.filtered_df) : out.API[i] \notin ReportApis

\* C7: the rows a record counts (Export Count, Total Shipments) are rows whose
\* token is not "INVALID" and whose Product Name holds a keyword as a whole word.
C7_OnlyHumanUseRowsCounted ==
    out.status = "report" =>
        /\ \A i \in Range(out.filtered_df) : Eligible(i)
        /\ \A j \in 1..Len(out.analysis_data) :
              LET r == out.analysis_data[j]
              IN /\ r.Export_Count = Cardinality({i \in Range(out.filtered_df) : out.API[i] = r.API})
                 /\ r.Total_Shipments = GroupQuantity(r.API)

\* a report is shown while a row with a real token but no keyword, and a row
\* with no Product Name, are left uncounted
C7_Witness ==
    /\ out.status = "report"
    /\ \E i \in RowIds :
          /\ NameText(i) # "" /\ TokenOfName[NameText(i)] # "INVALID" /\ ~KeywordInName[NameText(i)]
          /\ i \notin Range(out.filtered_df)
    /\ \E i \in RowIds : NameText(i) = "" /\ i \notin Range(out.filtered_df)

\* C8 as stated: a record whose summed Quantity is 0 has both averages equal to 0.
C8_AsStated ==
    \A j \in 1..Len(out.analysis_data) :
        LET r == out.analysis_data[j]
        IN r.Total_Shipments = 0 =>
              /\ r.Avg_FOB_Pack.den # 0 /\ r.Avg_FOB_Pack.num = 0
              /\ r.Avg_Price_Unit.den # 0 /\ r.Avg_Price_Unit.num = 0

\* C8 amended: a record whose summed Quantity is 0 has both averages equal to
\* the summed FOB (USD) of its rows divided by 1: no division by zero, and 0
\* only when that sum is 0.
C8_ZeroQuantityAverages ==
    \A j \in 1..Len(out.analysis_data) :
        LET r == out.analysis_data[j]
        IN r.Total_Shipments = 0 =>
              /\ r.Avg_FOB_Pack = [num |-> GroupFob(r.API), den |-> 1]
              /\ r.Avg_Price_Unit = [num |-> GroupFob(r.API), den |-> 1]
              /\ out.analysis_df[j].Avg_FOB_Pack = RoundHalfEven(GroupFob(r.API), 10)

\* a record with summed Quantity 0 and a summed FOB (USD) that is not 0
C8_Witness ==
    \E j \in 1..Len(out.analysis_data) :
        out.analysis_data[j].Total_Shipments = 0 /\ GroupFob(out.analysis_data[j].API) # 0

\* the first words of the rows of one API, in row order
GroupWords(a) ==
    LET rows == SelectSeq(out.filtered_df, LAMBDA i : out.API[i] = a)
    IN [j \in 1..Len(rows) |-> first_word(NameText(rows[j]))]

\* the words of w that no other word of w outnumbers
MostFrequent(w) ==
    LET n(v) == Cardinality({j \in 1..Len(w) : w[j] = v})
    IN {v \in Range(w) : \A u \in Range(w) : n(u) <= n(v)}

\* the word of the set M met first in w
FirstIn(w, M) == w[CHOOSE j \in 1..Len(w) : w[j] \in M /\ \A h \in 1..(j - 1) : w[h] \notin M]

\* C9 as stated: Category is the most frequent first word of the API's rows, and
\* of several tied ones the one that comes first in row order.
C9_AsStated ==
    \A j \in 1..Len(out.analysis_data) :
        LET w == GroupWords(out.analysis_data[j].API)
        IN out.analysis_data[j].Category = FirstIn(w, MostFrequent(w))

\* C9 amended: Category is the most frequent first word of the API's rows, and
\* of several tied ones the smallest in code-point order.
C9_CategoryIsSmallestMode ==
    \A j \in 1..Len(out.analysis_data) :
        LET w == GroupWords(out.analysis_data[j].API)
            c == out.analysis_data[j].Category
        IN c \in MostFrequent(w) /\ \A v \in MostFrequent(w) : v = c \/ StrLess(c, v)

\* a record whose rows have several most frequent first words, the first of
\* them in row order not being the smallest
C9_Witness ==
    \E j \in 1..Len(out.analysis_data) :
        LET w == GroupWords(out.analysis_data[j].API)
        IN Cardinality(MostFrequent(w)) >= 2
           /\ out.analysis_data[j].Category # FirstIn(w, MostFrequent(w))

ReportCardinalityUnlessException ==
    out.status # "exception" => C5_AsStated

====
